---- MODULE Spec2Model ----
(***************************************************************************)
(* Model of services/beehive-influxdb-loader/main.py: a RabbitMQ consumer  *)
(* that decodes, validates, translates and writes each delivered envelope  *)
(* to InfluxDB and acknowledges it.                                        *)
(***************************************************************************)
EXTENDS Integers, Sequences, FiniteSets, TLC

\* Number of envelopes published to the queue in one run.
NumEnvelopes == 2

(***************************************************************************)
(* Python values.  Every value carries its runtime type; an integer or a   *)
(* float is m * 10^e with at most nine significant digits in m.            *)
(***************************************************************************)
PyStr(s) == [type |-> "str", s |-> s]
PyInt(m, e) == [type |-> "int", m |-> m, e |-> e]
PyFloat(m, e) == [type |-> "float", m |-> m, e |-> e]
PyBool(b) == [type |-> "bool", b |-> b]
PyNone == [type |-> "NoneType"]
PyList == [type |-> "list"]
PyBytes == [type |-> "bytes"]
\* a dict is the sequence of its (key, value) items in insertion order
PyDict(items) == [type |-> "dict", items |-> items]

\* the classes an object of the given type is an instance of (bool subclasses int)
Bases(ty) == IF ty = "bool" THEN {"bool", "int"} ELSE {ty}

isinstance(obj, t) == Bases(obj.type) \cap t # {}

\* the limit passed to assert_maxlen by assert_valid_message
MaxLen == 64

\* largest decimal exponent of a finite double (1.7976931348623157e308)
DBL_MAX_10_EXP == 308

\* the first nine significant digits of the largest finite double, rounded up
DBL_MAX_DIGITS9 == 179769314

\* Outcome of a check: "ok" or the name of the exception it raises.
assert_type(obj, t) == IF ~isinstance(obj, t) THEN "TypeError" ELSE "ok"

\* a length check that is off by one
assert_maxlen_off_by_one(s, n) == IF Len(s.s) >= n THEN "ValueError" ELSE "ok"

assert_maxlen(s, n) == IF Len(s.s) > n THEN "ValueError" ELSE "ok"

\* the body of the loop over msg.meta.items(); assert_maxlen is evaluated only
\* when the preceding assert_type passed
RECURSIVE MetaItemsCheck(_)
MetaItemsCheck(items) ==
    IF items = <<>> THEN "ok"
    ELSE LET k == items[1][1]
             v == items[1][2]
         IN  IF assert_type(k, {"str"}) # "ok" THEN assert_type(k, {"str"})
             ELSE IF assert_maxlen(k, MaxLen) # "ok" THEN assert_maxlen(k, MaxLen)
             ELSE IF assert_type(v, {"str"}) # "ok" THEN assert_type(v, {"str"})
             ELSE IF assert_maxlen(v, MaxLen) # "ok" THEN assert_maxlen(v, MaxLen)
             ELSE MetaItemsCheck(Tail(items))

\* "key in d" for a dict d and a str key
DictHas(d, key) == \E i \in 1..Len(d.items) :
    /\ d.items[i][1].type = "str"
    /\ d.items[i][1].s = key

\* d[key] for a dict d that has the str key
DictGet(d, key) ==
    LET i == CHOOSE j \in 1..Len(d.items) :
                 d.items[j][1].type = "str" /\ d.items[j][1].s = key
    IN  d.items[i][2]

\* a validator that reports the missing node key as a ValueError
assert_valid_message_node_as_value_error(msg) ==
    IF assert_type(msg.name, {"str"}) # "ok" THEN "TypeError"
    ELSE IF assert_maxlen(msg.name, MaxLen) # "ok" THEN "ValueError"
    ELSE IF assert_type(msg.timestamp, {"int"}) # "ok" THEN "TypeError"
    ELSE IF assert_type(msg.value, {"int", "float", "str"}) # "ok" THEN "TypeError"
    ELSE IF assert_type(msg.meta, {"dict"}) # "ok" THEN "TypeError"
    ELSE IF MetaItemsCheck(msg.meta.items) # "ok" THEN MetaItemsCheck(msg.meta.items)
    ELSE IF ~DictHas(msg.meta, "node") THEN "ValueError"
    ELSE "ok"

assert_valid_message(msg) ==
    IF assert_type(msg.name, {"str"}) # "ok" THEN "TypeError"
    ELSE IF assert_maxlen(msg.name, MaxLen) # "ok" THEN "ValueError"
    ELSE IF assert_type(msg.timestamp, {"int"}) # "ok" THEN "TypeError"
    ELSE IF assert_type(msg.value, {"int", "float", "str"}) # "ok" THEN "TypeError"
    ELSE IF assert_type(msg.meta, {"dict"}) # "ok" THEN "TypeError"
    ELSE IF MetaItemsCheck(msg.meta.items) # "ok" THEN MetaItemsCheck(msg.meta.items)
    ELSE IF ~DictHas(msg.meta, "node") THEN "KeyError"
    ELSE "ok"

\* number of decimal digits of a natural number below 10^9
NumDigits(n) ==
    IF n < 10 THEN 1 ELSE IF n < 100 THEN 2 ELSE IF n < 1000 THEN 3
    ELSE IF n < 10000 THEN 4 ELSE IF n < 100000 THEN 5 ELSE IF n < 1000000 THEN 6
    ELSE IF n < 10000000 THEN 7 ELSE IF n < 100000000 THEN 8 ELSE 9

RECURSIVE Pow10(_)
Pow10(k) == IF k = 0 THEN 1 ELSE 10 * Pow10(k - 1)

Abs(n) == IF n < 0 THEN -n ELSE n

\* float(x) raises OverflowError when the int x does not fit a double
float_overflows(x) ==
    /\ x.type = "int"
    /\ x.m # 0
    /\ LET d == NumDigits(Abs(x.m))
           order == d - 1 + x.e
       IN  \/ order > DBL_MAX_10_EXP
           \/ /\ order = DBL_MAX_10_EXP
              /\ Abs(x.m) * Pow10(9 - d) >= DBL_MAX_DIGITS9

\* float(x) for an int or bool x that fits a double
float(x) ==
    IF x.type = "bool" THEN PyFloat(IF x.b THEN 1 ELSE 0, 0)
    ELSE PyFloat(x.m, x.e)

coerce_value_raises(x) == isinstance(x, {"int"}) /\ float_overflows(x)

\* a translation that passes every value through
coerce_value_passthrough(x) == x

coerce_value(x) == IF isinstance(x, {"int"}) THEN float(x) ELSE x


(***************************************************************************)
(* The wire envelope.  A body is either bytes that do not parse, or the    *)
(* serialized object with the wire keys name, ts, val and meta (a key may  *)
(* be absent).  message.load parses it into a Message.                     *)
(***************************************************************************)
GarbageBody == [kind |-> "garbage"]

JsonBody(obj) == [kind |-> "json", obj |-> obj]

load_raises(body) ==
    IF body.kind # "json" THEN TRUE
    ELSE ~({"name", "ts", "val", "meta"} \subseteq DOMAIN body.obj)

load(body) ==
    [name |-> body.obj.name,
     timestamp |-> body.obj.ts,
     value |-> body.obj.val,
     meta |-> body.obj.meta]

\* "node-" + msg.meta["node"]
NodeUser(msg) == PyStr("node-" \o DictGet(msg.meta, "node").s)

\* a comparison that lets an envelope without identity through
py_ne_absent_passes(a, b) == a.type = "str" /\ b.type = "str" /\ a.s # b.s

\* the != of line 93: a str differs from None and from any other str
py_ne(a, b) == ~(a.type = b.type /\ a.type = "str" /\ a.s = b.s)

\* the record built at lines 98-105
Record(msg) ==
    [measurement |-> msg.name,
     tags |-> msg.meta,
     fields |-> [value |-> coerce_value(msg.value)],
     time |-> msg.timestamp]

(***************************************************************************)
(* The envelopes the broker may deliver.                                   *)
(***************************************************************************)
S64 == "nnnnnnnnnnnnnnnnnnnnnnnnnnnnnnnnnnnnnnnnnnnnnnnnnnnnnnnnnnnnnnnn"
S65 == "nnnnnnnnnnnnnnnnnnnnnnnnnnnnnnnnnnnnnnnnnnnnnnnnnnnnnnnnnnnnnnnnn"

Names == {PyStr("env.temperature"), PyStr(S64), PyStr(S65), PyInt(7, 0)}

Timestamps == {PyInt(17, 17), PyFloat(15, -1), PyStr("2021-09-20")}

Values == {PyInt(23, 0), PyInt(1, 400), PyFloat(314, -2), PyStr("ok"),
           PyBool(TRUE), PyNone, PyList, PyBytes}

Metas ==
    {PyDict(<< <<PyStr("node"), PyStr("000048")>> >>),
     PyDict(<< <<PyStr("plugin"), PyStr("sampler")>>, <<PyStr("node"), PyStr("000099")>> >>),
     PyDict(<< <<PyStr("plugin"), PyStr("sampler")>> >>),
     PyDict(<< <<PyStr("plugin"), PyInt(3, 0)>> >>),
     PyDict(<< <<PyStr("node"), PyStr(S65)>> >>),
     PyDict(<< <<PyStr(S65), PyStr("x")>>, <<PyStr("node"), PyStr("000048")>> >>),
     PyDict(<< <<PyStr("node"), PyInt(48, 0)>> >>),
     PyList}

UserIds == {PyStr("node-000048"), PyStr("node-000099"), PyNone}

Bodies ==
    {GarbageBody, JsonBody([name |-> PyStr("env.temperature"), val |-> PyInt(23, 0)])}
    \cup {JsonBody([name |-> n, ts |-> t, val |-> v, meta |-> m]) :
              n \in Names, t \in Timestamps, v \in Values, m \in Metas}

\* what writer.write does with a call: returns, raises influxdb_client.rest.ApiException,
\* or raises another exception (connection failure, timeout, ...)
WriteOutcomes == {"ok", "ApiException", "OtherException"}

Tags == 1..NumEnvelopes

NoValue == [type |-> "unset"]

(***************************************************************************)
(* State.                                                                  *)
(***************************************************************************)
VARIABLES
    pc,        \* where main() is: "startup", "connecting" (client and writer made,
               \* broker not yet connected), "idle" (start_consuming waits), a handler
               \* position "load", "validate", "owner", "record", "write", "ack",
               \* or "exited" (startup failed), "crashed" (an exception left the handler)
    args,      \* the parsed influxdb_bucket and influxdb_org
    backend_up, \* environment: whether the InfluxDB server at influxdb_url can be reached
    ready,     \* broker: envelopes queued and not delivered, in order
    unacked,   \* broker: envelopes delivered to this consumer and not acknowledged
    inbox,     \* consumer: deliveries received and not yet handed to message_handler
    cur,       \* the arguments of the running message_handler call
    msg,       \* its local msg
    record,    \* its local record
    call,      \* the arguments of its writer.write call
    trace,     \* the calls the running (or last) message_handler made, in order:
               \* "load", "validate", "coerce", "write", "write_ok" (its return), "ack"
    acks,      \* per delivery tag, the number of basic_ack calls
    writes,    \* per delivery tag, the number of writer.write calls
    invoked,   \* per delivery tag, the number of message_handler calls
    outcome    \* per delivery tag, how its message_handler call ended; for a message
               \* dropped as invalid, the exception assert_valid_message raised

vars == <<pc, args, backend_up, ready, unacked, inbox, cur, msg, record, call, trace,
          acks, writes, invoked, outcome>>

Init ==
    /\ pc = "startup"
    /\ args = [influxdb_bucket |-> "waggle", influxdb_org |-> "waggle"]
    /\ backend_up \in BOOLEAN
    /\ ready = [i \in 1..NumEnvelopes |-> i]
    /\ unacked = {}
    /\ inbox = <<>>
    /\ cur = NoValue
    /\ msg = NoValue
    /\ record = NoValue
    /\ call = NoValue
    /\ trace = <<>>
    /\ acks = [t \in Tags |-> 0]
    /\ writes = [t \in Tags |-> 0]
    /\ invoked = [t \in Tags |-> 0]
    /\ outcome = [t \in Tags |-> "none"]

(***************************************************************************)
(* main(): connecting and consuming.                                       *)
(***************************************************************************)
\* Lines 68-75: InfluxDBClient(...) and client.write_api(...) build the client and
\* the writer from the arguments; neither sends a request, so they return whether
\* or not the server can be reached, and "connected to influxdb" is logged.
CreateInfluxClient ==
    /\ pc = "startup"
    /\ pc' = "connecting"
    /\ UNCHANGED <<args, backend_up, ready, unacked, inbox, cur, msg, record, call, trace,
                   acks, writes, invoked, outcome>>

\* Lines 144-149: the connection to the broker is made, the queue declared and bound
\* and the consumer registered; a failure there raises out of main().
Startup(ok) ==
    /\ pc = "connecting"
    /\ pc' = IF ok THEN "idle" ELSE "exited"
    /\ UNCHANGED <<args, backend_up, ready, unacked, inbox, cur, msg, record, call, trace,
                   acks, writes, invoked, outcome>>

\* The broker pushes the next queued envelope to the registered consumer.  The
\* consumer sets no prefetch limit (no basic_qos), so the broker does not wait for
\* acknowledgments; the delivery waits in the connection until start_consuming
\* dispatches it.
Deliver ==
    /\ pc \notin {"startup", "connecting", "exited", "crashed"}
    /\ ready # <<>>
    /\ ready' = Tail(ready)
    /\ unacked' = unacked \cup {Head(ready)}
    /\ inbox' = Append(inbox, Head(ready))
    /\ UNCHANGED <<pc, args, backend_up, cur, msg, record, call, trace, acks, writes, invoked, outcome>>

\* a consumer that hands over the next delivery while a write is pending
Dispatch_Reentrant(user_id, body) ==
    /\ pc \in {"idle", "writing"}
    /\ inbox # <<>>
    /\ cur' = [delivery_tag |-> Head(inbox), user_id |-> user_id, body |-> body]
    /\ inbox' = Tail(inbox)
    /\ invoked' = [invoked EXCEPT ![Head(inbox)] = @ + 1]
    /\ trace' = <<>>
    /\ pc' = "load"
    /\ UNCHANGED <<args, backend_up, ready, unacked, msg, record, call, acks, writes, outcome>>

\* start_consuming calls message_handler(ch, method, properties, body) for the
\* oldest received delivery.
Dispatch(user_id, body) ==
    /\ pc = "idle"
    /\ inbox # <<>>
    /\ cur' = [delivery_tag |-> Head(inbox), user_id |-> user_id, body |-> body]
    /\ inbox' = Tail(inbox)
    /\ invoked' = [invoked EXCEPT ![Head(inbox)] = @ + 1]
    /\ trace' = <<>>
    /\ pc' = "load"
    /\ UNCHANGED <<args, backend_up, ready, unacked, msg, record, call, acks, writes, outcome>>

(***************************************************************************)
(* message_handler.                                                        *)
(***************************************************************************)
\* an acknowledgment that covers every unacknowledged delivery
AckAndReturn_AckAll(how, calls) ==
    /\ acks' = [t \in Tags |-> IF t \in unacked THEN acks[t] + 1 ELSE acks[t]]
    /\ unacked' = {}
    /\ trace' = trace \o calls \o <<"ack">>
    /\ outcome' = [outcome EXCEPT ![cur.delivery_tag] = how]
    /\ cur' = NoValue
    /\ msg' = NoValue
    /\ record' = NoValue
    /\ call' = NoValue
    /\ pc' = "idle"

\* ch.basic_ack(method.delivery_tag) followed by the handler's return, which
\* discards its arguments and locals; calls are the calls made just before
AckAndReturn(how, calls) ==
    /\ acks' = [acks EXCEPT ![cur.delivery_tag] = @ + 1]
    /\ unacked' = unacked \ {cur.delivery_tag}
    /\ trace' = trace \o calls \o <<"ack">>
    /\ outcome' = [outcome EXCEPT ![cur.delivery_tag] = how]
    /\ cur' = NoValue
    /\ msg' = NoValue
    /\ record' = NoValue
    /\ call' = NoValue
    /\ pc' = "idle"

\* the deliveries of a set, oldest first
RECURSIVE InOrder(_)
InOrder(S) ==
    IF S = {} THEN <<>>
    ELSE LET t == CHOOSE x \in S : \A y \in S : x <= y
         IN  <<t>> \o InOrder(S \ {t})

\* An exception leaves message_handler: it propagates through start_consuming and
\* main(), the process ends, and the broker requeues what the closed connection
\* had not acknowledged.
Raise(how) ==
    /\ outcome' = [outcome EXCEPT ![cur.delivery_tag] = how]
    /\ pc' = "crashed"
    /\ ready' = InOrder(unacked) \o ready
    /\ unacked' = {}
    /\ inbox' = <<>>

\* a decode error that is not caught
LoadFail_Propagates ==
    /\ pc = "load"
    /\ load_raises(cur.body)
    /\ Raise("raised_in_load")
    /\ UNCHANGED <<args, backend_up, cur, msg, record, call, trace, acks, writes, invoked>>

\* lines 78-83
LoadFail ==
    /\ pc = "load"
    /\ load_raises(cur.body)
    /\ AckAndReturn("decode_error", <<"load">>)
    /\ UNCHANGED <<args, backend_up, ready, inbox, writes, invoked>>

LoadOk ==
    /\ pc = "load"
    /\ ~load_raises(cur.body)
    /\ msg' = load(cur.body)
    /\ trace' = Append(trace, "load")
    /\ pc' = "validate"
    /\ UNCHANGED <<args, backend_up, ready, unacked, inbox, cur, record, call,
                   acks, writes, invoked, outcome>>

\* lines 85-90
ValidateFail ==
    /\ pc = "validate"
    /\ assert_valid_message(msg) # "ok"
    /\ AckAndReturn(assert_valid_message(msg), <<"validate">>)
    /\ UNCHANGED <<args, backend_up, ready, inbox, writes, invoked>>

ValidateOk ==
    /\ pc = "validate"
    /\ assert_valid_message(msg) = "ok"
    /\ trace' = Append(trace, "validate")
    /\ pc' = "owner"
    /\ UNCHANGED <<args, backend_up, ready, unacked, inbox, cur, msg, record, call,
                   acks, writes, invoked, outcome>>

\* a comparison that is skipped once an envelope has been accepted
OwnerMismatch_Cached ==
    /\ pc = "owner"
    /\ py_ne(NodeUser(msg), cur.user_id)
    /\ IF \E t \in Tags : outcome[t] = "written"
       THEN /\ pc' = "record"
            /\ UNCHANGED <<unacked, cur, msg, record, call, trace, acks, outcome>>
       ELSE AckAndReturn("mismatch", <<>>)
    /\ UNCHANGED <<args, backend_up, ready, inbox, writes, invoked>>

\* lines 92-96
OwnerMismatch ==
    /\ pc = "owner"
    /\ py_ne(NodeUser(msg), cur.user_id)
    /\ AckAndReturn("mismatch", <<>>)
    /\ UNCHANGED <<args, backend_up, ready, inbox, writes, invoked>>

OwnerOk ==
    /\ pc = "owner"
    /\ ~py_ne(NodeUser(msg), cur.user_id)
    /\ pc' = "record"
    /\ UNCHANGED <<args, backend_up, ready, unacked, inbox, cur, msg, record, call, trace,
                   acks, writes, invoked, outcome>>

\* lines 98-105
BuildRecord ==
    /\ pc = "record"
    /\ ~coerce_value_raises(msg.value)
    /\ record' = Record(msg)
    /\ trace' = Append(trace, "coerce")
    /\ pc' = "write"
    /\ UNCHANGED <<args, backend_up, ready, unacked, inbox, cur, msg, call,
                   acks, writes, invoked, outcome>>

\* float(x) raises OverflowError outside any try block
BuildRecordRaises ==
    /\ pc = "record"
    /\ coerce_value_raises(msg.value)
    /\ Raise("raised_in_record")
    /\ UNCHANGED <<args, backend_up, cur, msg, record, call, trace, acks, writes, invoked>>

\* a handler that acknowledges before it writes
WriteCall_AckFirst ==
    /\ pc = "write"
    /\ acks' = [acks EXCEPT ![cur.delivery_tag] = @ + 1]
    /\ unacked' = unacked \ {cur.delivery_tag}
    /\ call' = [bucket |-> args.influxdb_bucket, org |-> args.influxdb_org,
                record |-> record, write_precision |-> "NS"]
    /\ writes' = [writes EXCEPT ![cur.delivery_tag] = @ + 1]
    /\ trace' = trace \o <<"ack", "write">>
    /\ pc' = "writing"
    /\ UNCHANGED <<args, backend_up, ready, inbox, cur, msg, record, invoked, outcome>>

\* a write whose bucket is taken from the message
WriteCall_ScopeFromMessage ==
    /\ pc = "write"
    /\ call' = [bucket |-> msg.name.s, org |-> args.influxdb_org,
                record |-> record, write_precision |-> "NS"]
    /\ writes' = [writes EXCEPT ![cur.delivery_tag] = @ + 1]
    /\ trace' = Append(trace, "write")
    /\ pc' = "writing"
    /\ UNCHANGED <<args, backend_up, ready, unacked, inbox, cur, msg, record, acks, invoked, outcome>>

\* line 112: the call is made and blocks the handler
WriteCall ==
    /\ pc = "write"
    /\ call' = [bucket |-> args.influxdb_bucket, org |-> args.influxdb_org,
                record |-> record, write_precision |-> "NS"]
    /\ writes' = [writes EXCEPT ![cur.delivery_tag] = @ + 1]
    /\ trace' = Append(trace, "write")
    /\ pc' = "writing"
    /\ UNCHANGED <<args, backend_up, ready, unacked, inbox, cur, msg, record, acks, invoked, outcome>>

\* the server accepts the points and the call returns
WriteOk ==
    /\ pc = "writing"
    /\ backend_up
    /\ trace' = Append(trace, "write_ok")
    /\ pc' = "ack"
    /\ UNCHANGED <<args, backend_up, ready, unacked, inbox, cur, msg, record, call,
                   acks, writes, invoked, outcome>>

\* an except clause that returns without acknowledging
WriteApiException_NoAck ==
    /\ pc = "writing"
    /\ outcome' = [outcome EXCEPT ![cur.delivery_tag] = "api_exception"]
    /\ cur' = NoValue
    /\ msg' = NoValue
    /\ record' = NoValue
    /\ call' = NoValue
    /\ pc' = "idle"
    /\ UNCHANGED <<args, backend_up, ready, unacked, inbox, trace, acks, writes, invoked>>

\* lines 113-116: the server answers with an error status and the call raises
\* influxdb_client.rest.ApiException
WriteApiException ==
    /\ pc = "writing"
    /\ backend_up
    /\ AckAndReturn("api_exception", <<>>)
    /\ UNCHANGED <<args, backend_up, ready, inbox, writes, invoked>>

\* the call raises an exception that is not an ApiException: no except clause matches
WriteOtherException ==
    /\ pc = "writing"
    /\ Raise("raised_in_write")
    /\ UNCHANGED <<args, backend_up, cur, msg, record, call, trace, acks, writes, invoked>>

\* a success path that returns without acknowledging
FinalAck_NoAck ==
    /\ pc = "ack"
    /\ outcome' = [outcome EXCEPT ![cur.delivery_tag] = "written"]
    /\ cur' = NoValue
    /\ msg' = NoValue
    /\ record' = NoValue
    /\ call' = NoValue
    /\ pc' = "idle"
    /\ UNCHANGED <<args, backend_up, ready, unacked, inbox, trace, acks, writes, invoked>>

\* lines 118-119
FinalAck ==
    /\ pc = "ack"
    /\ AckAndReturn("written", <<>>)
    /\ UNCHANGED <<args, backend_up, ready, inbox, writes, invoked>>

Next ==
    \/ CreateInfluxClient
    \/ \E ok \in BOOLEAN : Startup(ok)
    \/ Deliver
    \/ \E u \in UserIds, b \in Bodies : Dispatch(u, b)
    \/ LoadFail
    \/ LoadOk
    \/ ValidateFail
    \/ ValidateOk
    \/ OwnerMismatch
    \/ OwnerOk
    \/ BuildRecord
    \/ BuildRecordRaises
    \/ WriteCall
    \/ WriteOk
    \/ WriteApiException
    \/ WriteOtherException
    \/ FinalAck

Spec == Init /\ [][Next]_vars

\* start_consuming keeps dispatching and every stage call returns or raises
FairSpec == Spec /\ WF_vars(Next)

(***************************************************************************)
(* Properties.                                                             *)
(***************************************************************************)
\* the handler call for delivery t has ended, by returning or by raising
Ended(t) == outcome[t] # "none"

\* C1: every envelope handed to message_handler, whatever the outcome of each
\* stage, has been acknowledged exactly once when the handler ends, never twice,
\* and before the next envelope is handled.
C1_ExactlyOneAck ==
    \A t \in Tags :
        /\ acks[t] <= 1
        /\ Ended(t) => acks[t] = 1
        /\ \A u \in Tags : (t < u /\ invoked[t] > 0 /\ invoked[u] > 0) => acks[t] = 1

\* C2: a write happens only when properties.user_id is exactly "node-" followed
\* by meta["node"]; with any other identity, an absent one included, the envelope
\* is dropped and acknowledged without a write.
C2_OwnershipEnforced ==
    [][/\ (writes' # writes) =>
              /\ cur.user_id.type = "str"
              /\ cur.user_id.s = "node-" \o DictGet(msg.meta, "node").s
       /\ (/\ pc = "owner"
           /\ pc' # "owner"
           /\ ~(/\ cur.user_id.type = "str"
                /\ cur.user_id.s = "node-" \o DictGet(msg.meta, "node").s)) =>
              /\ pc' = "idle"
              /\ writes' = writes
              /\ acks' = [acks EXCEPT ![cur.delivery_tag] = 1]
              /\ cur.delivery_tag \notin unacked'
              /\ outcome'[cur.delivery_tag] = "mismatch"]_vars

\* C2 witness: the first envelope was dropped for its identity and the write for
\* the second, from node 000048 with identity node-000048, is under way
C2_Witness ==
    /\ outcome[1] = "mismatch"
    /\ pc = "writing"
    /\ cur.user_id = PyStr("node-000048")
    /\ DictGet(msg.meta, "node") = PyStr("000048")

\* C3: every failure of writer.write, of whatever kind, ends the handler normally
\* with the record dropped and the envelope acknowledged once; none propagates.
C3_WriteFailureIsPerMessage ==
    \A t \in Tags :
        (writes[t] > 0 /\ Ended(t) /\ outcome[t] # "written") =>
            /\ outcome[t] = "api_exception"
            /\ acks[t] = 1
            /\ t \notin unacked
            /\ pc # "crashed"

\* the deliveries in a sequence
Range(q) == {q[i] : i \in 1..Len(q)}

\* C4: when writer.write raises ApiException the envelope has had exactly one
\* write attempt and exactly one acknowledgment, and it is never queued, delivered
\* or handled again.
C4_ApiExceptionNoRetry ==
    \A t \in Tags :
        outcome[t] = "api_exception" =>
            /\ writes[t] = 1
            /\ acks[t] = 1
            /\ invoked[t] = 1
            /\ t \notin unacked
            /\ t \notin Range(ready)
            /\ t \notin Range(inbox)
            /\ (cur # NoValue => cur.delivery_tag # t)

\* C4 witness: the first envelope's write was rejected and a later handler call
\* has since ended the process, which requeues what was unacknowledged
C4_Witness ==
    /\ outcome[1] = "api_exception"
    /\ pc = "crashed"
    /\ ready # <<>>

\* the invariant set of the data model, with value a closed variant; timestamp
\* is read as Python reads "an integer" (isinstance)
IsStr64(x) == x.type = "str" /\ Len(x.s) <= 64

MessageInvariants(m) ==
    /\ IsStr64(m.name)
    /\ isinstance(m.timestamp, {"int"})
    /\ m.value.type \in {"int", "float", "str"}
    /\ m.meta.type = "dict"
    /\ \A i \in 1..Len(m.meta.items) :
           IsStr64(m.meta.items[i][1]) /\ IsStr64(m.meta.items[i][2])
    /\ \E i \in 1..Len(m.meta.items) : m.meta.items[i][1] = PyStr("node")

\* C5: writer.write is invoked only for a message that satisfies the invariant
\* set: name a string of at most 64, timestamp an integer, value an integer, a
\* float or a string and nothing else, meta a mapping of strings of at most 64
\* to strings of at most 64 that has the key "node".
C5_ValidationGatesWrite ==
    \A t \in Tags : (writes[t] > 0 /\ cur # NoValue /\ cur.delivery_tag = t) =>
        MessageInvariants(msg)

\* C6: when message.load raises, the error stays inside the handler: no validation,
\* comparison or write is made, the envelope is acknowledged exactly once, and the
\* loop is back waiting with the later deliveries untouched.
C6_DecodeErrorContained ==
    [][(pc = "load" /\ pc' # "load" /\ load_raises(cur.body)) =>
           /\ pc' = "idle"
           /\ trace' = <<"load", "ack">>
           /\ acks' = [acks EXCEPT ![cur.delivery_tag] = 1]
           /\ writes' = writes
           /\ cur.delivery_tag \notin unacked'
           /\ inbox' = inbox
           /\ ready' = ready
           /\ outcome' = [outcome EXCEPT ![cur.delivery_tag] = "decode_error"]]_vars

\* C6 witness: the first envelope failed to decode and the second was written
C6_Witness ==
    /\ outcome[1] = "decode_error"
    /\ acks[1] = 1
    /\ outcome[2] = "written"

\* C7: once consuming, every envelope of the sequence is eventually handled and
\* acknowledged with the loop back in Idle; no envelope stops the process.
C7_EveryEnvelopeHandled ==
    (pc = "idle") ~> (pc = "idle" /\ \A t \in Tags : acks[t] = 1)

\* C8: the record passed to writer.write is measurement = name, tags = meta
\* unchanged, the single field value and time = timestamp, where the field is the
\* float of an integer value and the value itself when it is a float or a string;
\* no integer-typed field value reaches storage.
C8_RecordTranslation ==
    pc = "writing" =>
        /\ DOMAIN call.record = {"measurement", "tags", "fields", "time"}
        /\ call.record.measurement = msg.name
        /\ call.record.tags = msg.meta
        /\ DOMAIN call.record.fields = {"value"}
        /\ call.record.time = msg.timestamp
        /\ msg.value.type = "int" =>
               call.record.fields.value = PyFloat(msg.value.m, msg.value.e)
        /\ msg.value.type \in {"float", "str"} =>
               call.record.fields.value = msg.value
        /\ call.record.fields.value.type # "int"

\* C8 witness: the integer 23 is about to reach storage as the float 23.0
C8_Witness ==
    /\ pc = "writing"
    /\ msg.name = PyStr("env.temperature")
    /\ msg.value = PyInt(23, 0)
    /\ call.record.fields.value = PyFloat(23, 0)
    /\ call.record.tags = PyDict(<< <<PyStr("node"), PyStr("000048")>> >>)

\* C9: when the backend accepts the write, the handler has made exactly one write
\* at nanosecond precision and then exactly one acknowledgment: nothing is
\* acknowledged while the write is pending, and no write follows the acknowledgment.
C9_WriteThenAck ==
    /\ \A t \in Tags :
           outcome[t] = "written" => (writes[t] = 1 /\ acks[t] = 1 /\ invoked[t] = 1)
    /\ pc \in {"write", "writing"} => acks[cur.delivery_tag] = 0
    /\ pc = "ack" =>
           /\ trace = <<"load", "validate", "coerce", "write", "write_ok">>
           /\ acks[cur.delivery_tag] = 0
           /\ writes[cur.delivery_tag] = 1
           /\ call.write_precision = "NS"
           /\ call.record = record
    /\ (pc = "idle" /\ "write_ok" \in Range(trace)) =>
           trace = <<"load", "validate", "coerce", "write", "write_ok", "ack">>

\* C9 witness: a handler call has ended after an accepted write
C9_Witness ==
    /\ pc = "idle"
    /\ outcome[1] = "written"
    /\ trace = <<"load", "validate", "coerce", "write", "write_ok", "ack">>

\* C10 as stated: the broker has at most one delivered and unacknowledged envelope
\* for this consumer.
C10_AtMostOneOutstanding == Cardinality(unacked) <= 1

\* C10 amended: of the envelopes delivered and unacknowledged, only the one the
\* running handler was called with has been handed to message_handler; the others
\* wait, unhandled, in the consumer.
C10_AtMostOneBeingHandled ==
    /\ \A t \in unacked :
           invoked[t] > 0 => (pc # "idle" /\ cur # NoValue /\ cur.delivery_tag = t)
    /\ \A t \in Range(inbox) : t \in unacked /\ invoked[t] = 0

\* C10 witness: two envelopes are unacknowledged at the broker while the first is
\* being written
C10_Witness ==
    /\ Cardinality(unacked) = 2
    /\ pc = "writing"
    /\ cur.delivery_tag = 1

\* the handler call for delivery t has started and not ended
Running(t) == invoked[t] > 0 /\ ~Ended(t)

\* C11: handler calls never overlap: the call for a later envelope starts only
\* after the call for every earlier one has returned through its acknowledgment,
\* so at most one envelope is being processed and at most one writer.write call
\* is pending.
C11_HandlersNeverOverlap ==
    /\ \A t, u \in Tags :
           (t < u /\ invoked[u] > 0) =>
               /\ Ended(t)
               /\ acks[t] = 1
               /\ outcome[t] \notin {"raised_in_record", "raised_in_write"}
    /\ Cardinality({t \in Tags : Running(t)}) <= 1
    /\ Cardinality({t \in Tags : Running(t) /\ writes[t] > 0}) <= 1
    /\ pc = "writing" => (Running(cur.delivery_tag) /\ writes[cur.delivery_tag] = 1)

\* C11 witness: the second envelope's write is pending after the first handler
\* call has returned
C11_Witness ==
    /\ pc = "writing"
    /\ cur.delivery_tag = 2
    /\ Ended(1)
    /\ acks[1] = 1

\* meta is a mapping without the key "node"
LacksNode(m) ==
    /\ m.meta.type = "dict"
    /\ ~\E i \in 1..Len(m.meta.items) :
           m.meta.items[i][1].type = "str" /\ m.meta.items[i][1].s = "node"

\* the missing key is the message's only violation
OnlyNodeMissing(m) ==
    /\ IsStr64(m.name)
    /\ m.timestamp.type = "int"
    /\ m.value.type \in {"int", "float", "str"}
    /\ LacksNode(m)
    /\ \A i \in 1..Len(m.meta.items) :
           IsStr64(m.meta.items[i][1]) /\ IsStr64(m.meta.items[i][2])

\* C12 as stated: every message whose meta lacks the key "node", whatever else it
\* contains, is rejected with the KeyError of assert_valid_message.
C12_MissingNodeIsKeyError ==
    [][(pc = "validate" /\ pc' # "validate" /\ LacksNode(msg)) =>
           outcome'[cur.delivery_tag] = "KeyError"]_vars

\* C12 amended: every message whose meta lacks the key "node" is rejected, dropped
\* and acknowledged without a write; the error is the KeyError when the missing key
\* is its only violation, and the TypeError or ValueError of an earlier check
\* otherwise.
C12_OnlyMissingNodeIsKeyError ==
    [][(pc = "validate" /\ pc' # "validate" /\ LacksNode(msg)) =>
           /\ pc' = "idle"
           /\ outcome'[cur.delivery_tag] \in {"TypeError", "ValueError", "KeyError"}
           /\ acks' = [acks EXCEPT ![cur.delivery_tag] = 1]
           /\ writes' = writes
           /\ OnlyNodeMissing(msg) => outcome'[cur.delivery_tag] = "KeyError"]_vars

\* C12 witness: an envelope was dropped for the missing key
C12_Witness ==
    /\ outcome[1] = "KeyError"
    /\ acks[1] = 1
    /\ writes[1] = 0

\* C13: a message whose name is a string longer than 64 is rejected with the
\* ValueError of assert_maxlen whatever its other fields are; a name of exactly 64
\* is not rejected for its length.
C13_LongNameIsTooLong ==
    [][(pc = "validate" /\ pc' # "validate" /\ msg.name.type = "str") =>
           /\ Len(msg.name.s) > 64 =>
                  (pc' = "idle" /\ outcome'[cur.delivery_tag] = "ValueError")
           /\ (Len(msg.name.s) = 64 /\ MessageInvariants(msg)) => pc' = "owner"]_vars

\* C13 witness: an envelope was dropped with a ValueError and a message with a
\* name of length 64 has passed validation
C13_Witness ==
    /\ outcome[1] = "ValueError"
    /\ pc = "owner"
    /\ msg.name = PyStr(S64)

\* C14: a backend or broker that cannot be reached at startup ends the process
\* before any envelope is consumed: no handler call is made without an established
\* backend connection, and none after a failed broker connection.
C14_StartupFailuresFatal ==
    /\ ~backend_up => \A t \in Tags : invoked[t] = 0
    /\ pc = "exited" => (unacked = {} /\ \A t \in Tags : invoked[t] = 0)

\* C15: for a message that passed assert_valid_message nothing between validation
\* and the write call raises, so the handler reaches the mismatch acknowledgment or
\* the writer.write call.
C15_TranslationCannotFail ==
    /\ \A t \in Tags : outcome[t] # "raised_in_record"
    /\ pc = "crashed" => writes[cur.delivery_tag] = 1

\* the identity of the running call is "node-" followed by its message's node
IdentityMatches ==
    /\ cur.user_id.type = "str"
    /\ cur.user_id.s = "node-" \o DictGet(msg.meta, "node").s

\* C16: whether an envelope passes the ownership check is decided by its own
\* identity and payload alone, in every history: it passes exactly when they
\* match, and the decision touches no other envelope's record.
C16_OwnershipPerEnvelope ==
    [][(pc = "owner" /\ pc' # "owner") =>
           /\ IdentityMatches => (pc' = "record" /\ acks' = acks /\ outcome' = outcome)
           /\ ~IdentityMatches =>
                  /\ pc' = "idle"
                  /\ outcome' = [outcome EXCEPT ![cur.delivery_tag] = "mismatch"]
                  /\ acks' = [acks EXCEPT ![cur.delivery_tag] = 1]
           /\ writes' = writes]_vars

\* C16 witness: after an envelope was accepted and written, the next one, with a
\* mismatching identity, was dropped
C16_Witness ==
    /\ outcome[1] = "written"
    /\ outcome[2] = "mismatch"
    /\ writes[2] = 0

\* C17: every write goes to the bucket and organization of the arguments with
\* nanosecond precision, and no step changes the arguments.
C17_FixedWriteScope ==
    [][/\ args' = args
       /\ writes' # writes =>
              /\ call'.bucket = args.influxdb_bucket
              /\ call'.org = args.influxdb_org
              /\ call'.write_precision = "NS"
              /\ call'.record = record]_vars

\* C17 witness: the second envelope's write is pending, in the configured scope,
\* after the first was written
C17_Witness ==
    /\ pc = "writing"
    /\ cur.delivery_tag = 2
    /\ outcome[1] = "written"
    /\ call.bucket = "waggle"
    /\ call.org = "waggle"

\* C18: every acknowledgment is for the delivery tag of the running handler call
\* and for that delivery alone; other unacknowledged deliveries stay so.
C18_AckOwnDeliveryOnly ==
    [][(acks' # acks \/ \E t \in unacked : t \notin unacked' /\ pc' # "crashed") =>
           /\ cur # NoValue
           /\ cur.delivery_tag \in unacked
           /\ acks' = [acks EXCEPT ![cur.delivery_tag] = @ + 1]
           /\ unacked' = unacked \ {cur.delivery_tag}]_vars

\* C18 witness: the first envelope has been acknowledged by its handler call while
\* the second, already delivered, is still unacknowledged and unhandled
C18_Witness ==
    /\ acks[1] = 1
    /\ 2 \in unacked
    /\ invoked[2] = 0
    /\ acks[2] = 0

====
